---- MODULE Spec2Model ----
(***************************************************************************)
(* Model of the TikTok creative-report mock API: the Vercel function       *)
(* (src/api/index.ts) and the Express server (src/mockTikTokServer.ts).    *)
(*                                                                         *)
(* JavaScript values are tagged records (field t is the typeof/kind), so   *)
(* that the shapes JSON.parse can return are all represented.  Objects are *)
(* functions from property keys (strings) to values.  Math.random is a     *)
(* counter-driven source: draw number c returns (c % RandDenom)/RandDenom. *)
(***************************************************************************)
EXTENDS Integers, Sequences, FiniteSets, TLC

VARIABLES
    requestedMetrics,   \* generateMetrics: the argument of the call under test
    metricsRng,         \* generateMetrics: state of Math.random at the call
    metricsOut,         \* generateMetrics: the returned mapping, or NotCalled
    mockArgs,           \* generateMockData: the arguments of the call under test
    mockOut,            \* generateMockData: the returned rows, a throw, or NotCalled
    req,                \* the HTTP request sent to both entry points
    vercelRes,          \* response of the Vercel handler, or NoResponse
    expressRes          \* response of the Express server, or NoResponse

vars == <<requestedMetrics, metricsRng, metricsOut, mockArgs, mockOut,
          req, vercelRes, expressRes>>

-----------------------------------------------------------------------------
(* Bounds of the model *)

MaxMetrics == 2      \* longest metric-name list given to generateMetrics alone
MaxInfoFields == 2   \* longest info-field list given to generateMockData alone
MaxMaterials == 2    \* longest material_id array
MaxFields == 1       \* longest info_fields / metrics_fields array in a request
RandDenom == 3       \* Math.random returns k / RandDenom, k in 0..RandDenom-1

-----------------------------------------------------------------------------
(* JavaScript values *)

JNull == [t |-> "null"]
JUndefined == [t |-> "undefined"]
JNum(n) == [t |-> "number", n |-> n]
JStr(s) == [t |-> "string", s |-> s]
JArr(a) == [t |-> "array", a |-> a]
JObj(o) == [t |-> "object", o |-> o]
\* A string the program builds character by character.
JChars(chars) == [t |-> "string", chars |-> chars]

EmptyObject == [k \in {} |-> JNull]

Digits == <<"0", "1", "2", "3", "4", "5", "6", "7", "8", "9">>

Pow10 == <<1, 10, 100, 1000, 10000, 100000, 1000000>>

\* Number.prototype.toString() of an integer 0 <= n < 10^6, as its characters:
\* the digits from the most significant one, without leading zeros.
NumberToString(n) ==
    LET len == CHOOSE d \in 1..6 : (n < Pow10[d + 1]) /\ (d = 1 \/ n >= Pow10[d])
    IN [i \in 1..len |-> Digits[((n \div Pow10[len - i + 1]) % 10) + 1]]

NaNString == <<"N", "a", "N">>

\* String(element) for an element of an array that is joined.
ElementToString(v) ==
    CASE v.t = "string" -> v.s
      [] v.t = "number" -> ToString(v.n)
      [] v.t = "null"   -> ""
      [] OTHER          -> "[object Object]"

RECURSIVE ArrayJoin(_)
\* Array.prototype.join(",")
ArrayJoin(a) ==
    IF a = << >> THEN ""
    ELSE IF Len(a) = 1 THEN ElementToString(a[1])
    ELSE ElementToString(a[1]) \o "," \o ArrayJoin(Tail(a))

\* The property key a value is converted to when it is used in obj[value].
ToPropertyKey(v) ==
    CASE v.t = "string" -> v.s
      [] v.t = "number" -> ToString(v.n)
      [] v.t = "null"   -> "null"
      [] v.t = "array"  -> ArrayJoin(v.a)
      [] v.t = "object" -> "[object Object]"

\* Properties every plain object inherits from Object.prototype.
ObjectPrototypeKeys ==
    {"constructor", "toString", "valueOf", "hasOwnProperty", "__proto__"}

\* obj[key] = value on a plain object: the inherited __proto__ setter ignores
\* a primitive, every other key becomes (or replaces) an own property.
SetProperty(obj, key, value) ==
    IF key = "__proto__" THEN obj
    ELSE [k \in (DOMAIN obj) \cup {key} |-> IF k = key THEN value ELSE obj[k]]

\* { ...a, ...b }: the own properties of b replace those of a.
Spread(a, b) ==
    [k \in (DOMAIN a) \cup (DOMAIN b) |-> IF k \in DOMAIN b THEN b[k] ELSE a[k]]

\* A call that returned nothing because it threw.
Threw(message) == [threw |-> TRUE, message |-> message]
Returned(value) == [threw |-> FALSE, value |-> value]

-----------------------------------------------------------------------------
(* Math.random *)

\* The calls of Math.random are independent draws.  Draw number d of a run
\* started with seed c returns MathRandom(c + d) / RandDenom; the number of a
\* draw is given by its place in the computation (row, field, character).
MathRandom(d) == d % RandDenom

\* Math.floor(Math.random() * n) for an integer n.
FloorRandomTimes(d, n) == (MathRandom(d) * n) \div RandDenom

-----------------------------------------------------------------------------
(* generateId *)

characters ==
    <<"a", "b", "c", "d", "e", "f", "g", "h", "i", "j", "k", "l", "m",
      "n", "o", "p", "q", "r", "s", "t", "u", "v", "w", "x", "y", "z",
      "0", "1", "2", "3", "4", "5", "6", "7", "8", "9">>

EntityIdLength == 24
RequestIdLength == 32

\* generateId(length), its draws starting at d: one character per iteration.
generateId(length, d) ==
    JChars([i \in 1..length |->
              characters[FloorRandomTimes(d + i - 1, Len(characters)) + 1]])

-----------------------------------------------------------------------------
(* generateMetrics *)

baseValues ==
    [impressions        |-> [min |-> 1000, max |-> 100000],
     clicks             |-> [min |-> 50,   max |-> 5000],
     spend              |-> [min |-> 100,  max |-> 10000],
     video_watched_2s   |-> [min |-> 800,  max |-> 80000],
     video_views_p75    |-> [min |-> 200,  max |-> 20000],
     conversion         |-> [min |-> 10,   max |-> 1000],
     video_play_actions |-> [min |-> 500,  max |-> 50000],
     video_watched_6s   |-> [min |-> 400,  max |-> 40000],
     average_video_play |-> [min |-> 3,    max |-> 15],
     video_views_p25    |-> [min |-> 600,  max |-> 60000],
     video_views_p50    |-> [min |-> 400,  max |-> 40000],
     video_views_p100   |-> [min |-> 100,  max |-> 10000]]

\* Math.floor(Math.random() * (max - min) + min)
RandomInRange(range, d) ==
    FloorRandomTimes(d, range.max - range.min) + range.min

\* The value the forEach callback assigns to metrics[metric].
\* baseValues[metric] is truthy for an own entry of the table and for every
\* member inherited from Object.prototype; an inherited member has no min and
\* no max, and the arithmetic on undefined gives NaN.
MetricValue(key, d) ==
    IF key \in DOMAIN baseValues
    THEN NumberToString(RandomInRange(baseValues[key], d))
    ELSE IF key \in ObjectPrototypeKeys THEN NaNString
    ELSE <<"0">>

RECURSIVE ForEachMetric(_, _, _, _)
\* The forEach loop from element j on, metrics holding the assignments so far.
ForEachMetric(names, j, metrics, d) ==
    IF j > Len(names) THEN metrics
    ELSE ForEachMetric(names, j + 1,
             SetProperty(metrics, ToPropertyKey(names[j]),
                         MetricValue(ToPropertyKey(names[j]), d + j)),
             d)

\* The TypeError of value.method(...) when value is not an array.
NotAnArrayMessage(value, name, method) ==
    IF value.t = "null"
    THEN "Cannot read properties of null (reading '" \o method \o "')"
    ELSE name \o "." \o method \o " is not a function"

\* generateMetrics(requestedMetrics): the metrics mapping, or the TypeError of
\* requestedMetrics.forEach.
generateMetrics(names, d) ==
    IF names.t # "array"
    THEN Threw(NotAnArrayMessage(names, "requestedMetrics", "forEach"))
    ELSE Returned(ForEachMetric(names.a, 1, EmptyObject, d))

-----------------------------------------------------------------------------
(* generateMockData *)

FixedInfoFields == {"material_id", "video_id", "page_id", "image_id"}

\* ["material_id", "video_id", "page_id", "image_id"].includes(field):
\* only a string is equal to one of the four strings.
IsFixedField(field) == field.t = "string" /\ field.s \in FixedInfoFields

RECURSIVE ReduceInfo(_, _, _, _)
\* The reduce over infoFields from element j on, acc being the accumulator.
ReduceInfo(fields, j, acc, d) ==
    IF j > Len(fields) THEN acc
    ELSE ReduceInfo(fields, j + 1,
             IF IsFixedField(fields[j]) THEN acc
             ELSE SetProperty(acc, ToPropertyKey(fields[j]),
                              generateId(EntityIdLength, d + j)),
             d)

\* The error the map callback throws while it builds a row, if any: the
\* properties of the literal are evaluated in order, metrics first, the
\* reduce over infoFields last.  It is the same for every material id.
CallbackError(infoFields, metricsFields) ==
    IF metricsFields.t # "array"
    THEN Threw(NotAnArrayMessage(metricsFields, "requestedMetrics", "forEach"))
    ELSE IF infoFields.t # "array"
    THEN Threw(NotAnArrayMessage(infoFields, "infoFields", "reduce"))
    ELSE Returned(JUndefined)

\* The row the map callback returns for one material id when nothing throws.
MockRow(materialId, infoFields, metricsFields, d) ==
    [metrics |-> generateMetrics(metricsFields, d).value,
     info    |-> Spread([material_id |-> materialId,
                         video_id    |-> generateId(EntityIdLength, d),
                         page_id     |-> generateId(EntityIdLength, d + 1),
                         image_id    |-> generateId(EntityIdLength, d + 2)],
                        ReduceInfo(infoFields.a, 1, EmptyObject, d + 2))]

\* generateMockData(materialIds, infoFields, metricsFields): materialIds.map
\* calls the callback once per element, in order, and the first throw ends it.
generateMockData(materialIds, infoFields, metricsFields, d) ==
    IF materialIds # << >> /\ CallbackError(infoFields, metricsFields).threw
    THEN CallbackError(infoFields, metricsFields)
    ELSE Returned([k \in 1..Len(materialIds) |->
                     MockRow(materialIds[k], infoFields, metricsFields, d + k)])

-----------------------------------------------------------------------------
(* Query parameters and JSON.parse *)

\* A query parameter is absent (undefined), or a text that is not JSON, or
\* the JSON text of a value.
QAbsent == [q |-> "absent"]
QRaw(s) == [q |-> "raw", s |-> s]
QJson(v) == [q |-> "json", v |-> v]

\* if (param): undefined and the empty string are falsy.
ParamIsTruthy(param) ==
    CASE param.q = "absent" -> FALSE
      [] param.q = "raw"    -> param.s # ""
      [] param.q = "json"   -> TRUE

\* JSON.parse(param as string): undefined is converted to the text
\* "undefined", which is not JSON.
JSONparse(param) ==
    CASE param.q = "absent" -> Threw("\"undefined\" is not valid JSON")
      [] param.q = "raw"    ->
            IF param.s = "" THEN Threw("Unexpected end of JSON input")
            ELSE Threw("Unexpected token in JSON: " \o param.s)
      [] param.q = "json"   -> Returned(param.v)

\* if (value): the falsy values among those JSON.parse can return.
ToBoolean(value) ==
    CASE value.t = "undefined" -> FALSE
      [] value.t = "null"      -> FALSE
      [] value.t = "number"    -> value.n # 0
      [] value.t = "string"    -> value.s # ""
      [] value.t = "array"     -> TRUE
      [] value.t = "object"    -> TRUE

\* value.material_id
GetMaterialId(value) ==
    CASE value.t = "null" ->
            Threw("Cannot read properties of null (reading 'material_id')")
      [] value.t = "object" ->
            Returned(IF "material_id" \in DOMAIN value.o
                     THEN value.o["material_id"] ELSE JUndefined)
      [] OTHER -> Returned(JUndefined)

MsgFilteringRequired == "filtering parameter with material_id array is required"
MsgMaterialIdArray ==
    "material_id must be provided as an array in the filtering parameter"

\* "Get material_ids from filtering": the if/else that both entry points run.
\* Returns the elements of the material_id array.
MaterialIdsFromFiltering(filtering) ==
    IF ParamIsTruthy(filtering)
    THEN IF JSONparse(filtering).threw THEN JSONparse(filtering)
         ELSE IF GetMaterialId(JSONparse(filtering).value).threw
         THEN GetMaterialId(JSONparse(filtering).value)
         ELSE IF /\ ToBoolean(GetMaterialId(JSONparse(filtering).value).value)
                 /\ GetMaterialId(JSONparse(filtering).value).value.t = "array"
         THEN Returned(GetMaterialId(JSONparse(filtering).value).value.a)
         ELSE Threw(MsgMaterialIdArray)
    ELSE Threw(MsgFilteringRequired)

-----------------------------------------------------------------------------
(* Responses *)

NoBody == [kind |-> "none"]
Envelope(code, message, request_id, data) ==
    [kind |-> "json", code |-> code, message |-> message,
     request_id |-> request_id, data |-> data]

\* SuccessResponse with page_size taken from the default of the page_size
\* query parameter instead of the number of material ids.
SuccessResponseDefaultPageSize(materialIds, mockData, d) ==
    [status |-> 200,
     body   |-> Envelope(0, "OK", generateId(RequestIdLength, d),
                   [list      |-> mockData,
                    page_info |-> [total_number |-> Len(materialIds),
                                   total_page   |-> 1,
                                   page_size    |-> 10,
                                   page         |-> 1]])]

\* The response object built after generateMockData returned.
SuccessResponse(materialIds, mockData, d) ==
    [status |-> 200,
     body   |-> Envelope(0, "OK", generateId(RequestIdLength, d),
                   [list      |-> mockData,
                    page_info |-> [total_number |-> Len(materialIds),
                                   total_page   |-> 1,
                                   page_size    |-> Len(materialIds),
                                   page         |-> 1]])]

\* ErrorResponse with data in the shape of a success, an empty list.
ErrorResponseWithList(error, d) ==
    [status |-> 400,
     body   |-> Envelope(40001, error.message,
                         generateId(RequestIdLength, d),
                         [list      |-> << >>,
                          page_info |-> [total_number |-> 0, total_page |-> 1,
                                         page_size |-> 0, page |-> 1]])]

\* The catch block: every error thrown in the try block is an Error.
ErrorResponse(error, d) ==
    [status |-> 400,
     body   |-> Envelope(40001, error.message,
                         generateId(RequestIdLength, d), EmptyObject)]

\* The part of the try block after the two field lists are parsed.
GenerateAndRespond(materialIds, parsedInfoFields, parsedMetricsFields, d) ==
    IF materialIds.threw THEN ErrorResponse(materialIds, d)
    ELSE IF generateMockData(materialIds.value, parsedInfoFields,
                             parsedMetricsFields, d).threw
    THEN ErrorResponse(generateMockData(materialIds.value, parsedInfoFields,
                                        parsedMetricsFields, d), d)
    ELSE SuccessResponse(materialIds.value,
             generateMockData(materialIds.value, parsedInfoFields,
                              parsedMetricsFields, d).value,
             d)

-----------------------------------------------------------------------------
(* The Vercel function, src/api/index.ts *)

\* The try/catch of the handler for a GET request.  filtering is parsed once
\* for the log before the test of its presence.
VercelTry(query, d) ==
    IF JSONparse(query.info_fields).threw
    THEN ErrorResponse(JSONparse(query.info_fields), d)
    ELSE IF JSONparse(query.metrics_fields).threw
    THEN ErrorResponse(JSONparse(query.metrics_fields), d)
    ELSE IF JSONparse(query.filtering).threw
    THEN ErrorResponse(JSONparse(query.filtering), d)
    ELSE GenerateAndRespond(MaterialIdsFromFiltering(query.filtering),
                            JSONparse(query.info_fields).value,
                            JSONparse(query.metrics_fields).value, d)

MethodNotAllowedResponse(d) ==
    [status |-> 405,
     body   |-> Envelope(40500, "Method not allowed",
                         generateId(RequestIdLength, d), EmptyObject)]

\* handler(req, res), the draws of Math.random starting at d.
handler(request, d) ==
    IF request.method = "OPTIONS" THEN [status |-> 200, body |-> NoBody]
    ELSE IF request.method # "GET" THEN MethodNotAllowedResponse(d)
    ELSE VercelTry(request.query, d)

-----------------------------------------------------------------------------
(* The Express server, src/mockTikTokServer.ts *)

\* The try/catch of the route for a GET request.
ExpressTry(query, d) ==
    IF JSONparse(query.info_fields).threw
    THEN ErrorResponse(JSONparse(query.info_fields), d)
    ELSE IF JSONparse(query.metrics_fields).threw
    THEN ErrorResponse(JSONparse(query.metrics_fields), d)
    ELSE GenerateAndRespond(MaterialIdsFromFiltering(query.filtering),
                            JSONparse(query.info_fields).value,
                            JSONparse(query.metrics_fields).value, d)

\* The only route the application registers is app.get(path): a request of
\* another method passes the two middlewares and reaches no handler, and
\* Express answers it itself: 200 with the allowed methods for OPTIONS, 404
\* "Cannot <METHOD> <path>" otherwise.
ExpressNoRouteResponse(method) ==
    IF method = "OPTIONS" THEN [status |-> 200, body |-> [kind |-> "text"]]
    ELSE [status |-> 404, body |-> [kind |-> "html"]]

\* The application's answer to a request for the report path.
app(request, d) ==
    IF request.method = "GET" THEN ExpressTry(request.query, d)
    ELSE ExpressNoRouteResponse(request.method)

-----------------------------------------------------------------------------
(* Inputs *)

SeqsUpTo(S, n) == UNION {[1..k -> S] : k \in 0..n}

\* Seeds of Math.random for a call of one function alone.
Seeds == 0..(RandDenom - 1)

\* Seeds of Math.random for a request: its first draw returns the least or
\* the greatest value.
RequestSeeds == {0, RandDenom - 1}

\* Names given to generateMetrics alone: the twelve known names, an unknown
\* name, and two names of members of Object.prototype.
MetricNames ==
    (DOMAIN baseValues) \cup {"bogus_metric", "constructor", "__proto__"}

\* Names given to generateMockData alone.
InfoNames == FixedInfoFields \cup {"ad_name", "ad_text", "__proto__"}

MaterialIdValues == {JStr("m1"), JStr("m2")}

NotCalled == [threw |-> FALSE, called |-> FALSE]
NoArgs == [materialIds |-> << >>, infoFields |-> JArr(<< >>),
           metricsFields |-> JArr(<< >>), rng |-> 0]

NoRequest == [method |-> "none"]
NoResponse == [status |-> 0, body |-> NoBody]

Methods == {"GET", "POST", "OPTIONS"}

\* Elements of the info_fields and metrics_fields arrays of a request: names,
\* and elements that are not strings.
RequestInfoElements ==
    {JStr("material_id"), JStr("ad_name"), JArr(<<JStr("material_id")>>)}
RequestMetricElements == {JStr("impressions"), JStr("bogus_metric"), JNum(7)}

InfoFieldsParams ==
    {QAbsent, QRaw("not json"), QJson(JNull), QJson(JObj(EmptyObject))}
    \cup {QJson(JArr(a)) : a \in SeqsUpTo(RequestInfoElements, MaxFields)}

MetricsFieldsParams ==
    {QAbsent, QRaw("not json"), QJson(JObj(EmptyObject))}
    \cup {QJson(JArr(a)) : a \in SeqsUpTo(RequestMetricElements, MaxFields)}

FilteringParams ==
    {QAbsent, QRaw(""), QRaw("not json"), QJson(JNull),
     QJson(JObj([foo |-> JStr("bar")])),
     QJson(JObj([material_id |-> JStr("m1")]))}
    \cup {QJson(JObj([material_id |-> JArr(a)])) :
            a \in SeqsUpTo(MaterialIdValues, MaxMaterials)}

\* page and page_size: both absent, or both given.
PagingParams == {[page |-> QAbsent, page_size |-> QAbsent],
                 [page |-> QRaw("2"), page_size |-> QRaw("5")]}

Requests ==
    {[method |-> m,
      query  |-> [info_fields |-> i, metrics_fields |-> mf, filtering |-> f,
                  page |-> pg.page, page_size |-> pg.page_size]] :
        m \in Methods, i \in InfoFieldsParams, mf \in MetricsFieldsParams,
        f \in FilteringParams, pg \in PagingParams}

-----------------------------------------------------------------------------
(* generateMetrics called alone *)

InitMetrics ==
    /\ requestedMetrics \in {JArr([i \in DOMAIN a |-> JStr(a[i])]) :
                               a \in SeqsUpTo(MetricNames, MaxMetrics)}
    /\ metricsRng \in Seeds
    /\ metricsOut = NotCalled
    /\ mockArgs = NoArgs
    /\ mockOut = NotCalled
    /\ req = NoRequest
    /\ vercelRes = NoResponse
    /\ expressRes = NoResponse

CallGenerateMetrics ==
    /\ metricsOut = NotCalled
    /\ metricsOut' = generateMetrics(requestedMetrics, metricsRng)
    /\ UNCHANGED <<requestedMetrics, metricsRng, mockArgs, mockOut,
                   req, vercelRes, expressRes>>

NextMetrics == CallGenerateMetrics

SpecMetrics == InitMetrics /\ [][NextMetrics]_vars

-----------------------------------------------------------------------------
(* generateMockData called alone *)

InitMockData ==
    /\ mockArgs \in
         [materialIds   : SeqsUpTo(MaterialIdValues, MaxMaterials),
          infoFields    : {JArr([i \in DOMAIN a |-> JStr(a[i])]) :
                             a \in SeqsUpTo(InfoNames, MaxInfoFields)},
          metricsFields : {JArr(<< >>), JArr(<<JStr("clicks")>>)},
          rng           : Seeds]
    /\ mockOut = NotCalled
    /\ requestedMetrics = JArr(<< >>)
    /\ metricsRng = 0
    /\ metricsOut = NotCalled
    /\ req = NoRequest
    /\ vercelRes = NoResponse
    /\ expressRes = NoResponse

CallGenerateMockData ==
    /\ mockOut = NotCalled
    /\ mockOut' = generateMockData(mockArgs.materialIds, mockArgs.infoFields,
                                   mockArgs.metricsFields, mockArgs.rng)
    /\ UNCHANGED <<requestedMetrics, metricsRng, metricsOut, mockArgs,
                   req, vercelRes, expressRes>>

NextMockData == CallGenerateMockData

SpecMockData == InitMockData /\ [][NextMockData]_vars

-----------------------------------------------------------------------------
(* The two entry points serving one request *)

Init ==
    /\ req = NoRequest
    /\ vercelRes = NoResponse
    /\ expressRes = NoResponse
    /\ requestedMetrics = JArr(<< >>)
    /\ metricsRng = 0
    /\ metricsOut = NotCalled
    /\ mockArgs = NoArgs
    /\ mockOut = NotCalled

pureVars == <<requestedMetrics, metricsRng, metricsOut, mockArgs, mockOut>>

\* A client sends the same request to the two deployments.
SendRequest ==
    /\ req = NoRequest
    /\ req' \in Requests
    /\ UNCHANGED <<vercelRes, expressRes, pureVars>>

VercelOptions ==
    /\ req # NoRequest /\ vercelRes = NoResponse
    /\ req.method = "OPTIONS"
    /\ vercelRes' = handler(req, 0)
    /\ UNCHANGED <<req, expressRes, pureVars>>

VercelMethodNotAllowed ==
    /\ req # NoRequest /\ vercelRes = NoResponse
    /\ req.method \notin {"OPTIONS", "GET"}
    /\ \E c \in RequestSeeds : vercelRes' = handler(req, c)
    /\ UNCHANGED <<req, expressRes, pureVars>>

VercelGet ==
    /\ req # NoRequest /\ vercelRes = NoResponse
    /\ req.method = "GET"
    /\ \E c \in RequestSeeds : vercelRes' = handler(req, c)
    /\ UNCHANGED <<req, expressRes, pureVars>>

ExpressGet ==
    /\ req # NoRequest /\ expressRes = NoResponse
    /\ req.method = "GET"
    /\ \E c \in RequestSeeds : expressRes' = app(req, c)
    /\ UNCHANGED <<req, vercelRes, pureVars>>

ExpressNoRoute ==
    /\ req # NoRequest /\ expressRes = NoResponse
    /\ req.method # "GET"
    /\ expressRes' = app(req, 0)
    /\ UNCHANGED <<req, vercelRes, pureVars>>

Next ==
    \/ SendRequest
    \/ VercelOptions
    \/ VercelMethodNotAllowed
    \/ VercelGet
    \/ ExpressGet
    \/ ExpressNoRoute

Spec == Init /\ [][Next]_vars

-----------------------------------------------------------------------------
(* Properties *)

Responses == {vercelRes, expressRes}

IsGet == req.method = "GET"

IsStringArray(v) == v.t = "array" /\ \A i \in DOMAIN v.a : v.a[i].t = "string"

\* info_fields and metrics_fields are both the JSON text of an array of strings.
ValidFields ==
    /\ req.query.info_fields.q = "json"
    /\ IsStringArray(req.query.info_fields.v)
    /\ req.query.metrics_fields.q = "json"
    /\ IsStringArray(req.query.metrics_fields.v)

HasMaterialIdArray(v) ==
    /\ v.t = "object"
    /\ "material_id" \in DOMAIN v.o
    /\ v.o["material_id"].t = "array"

IsSuccess(res) == res.body.kind = "json" /\ res.body.code = 0

IsInputError(res) ==
    res.status = 400 /\ res.body.kind = "json" /\ res.body.code = 40001

\* The material_id array of the request, when filtering holds one.
RequestedMaterialIds == req.query.filtering.v.o["material_id"].a

\* C1: every successful GET response has one row per element of the
\* material_id array M, row i carrying info.material_id = M[i].
C1_RowsFollowMaterialIds ==
    \A res \in Responses :
        (IsGet /\ IsSuccess(res)) =>
            /\ Len(res.body.data.list) = Len(RequestedMaterialIds)
            /\ \A i \in 1..Len(RequestedMaterialIds) :
                   res.body.data.list[i].info["material_id"]
                       = RequestedMaterialIds[i]

IsDigit(ch) == \E i \in DOMAIN Digits : Digits[i] = ch
DigitValue(ch) == (CHOOSE i \in DOMAIN Digits : Digits[i] = ch) - 1

RECURSIVE ParseDecimal(_)
\* The integer a sequence of digits denotes.
ParseDecimal(chars) ==
    IF chars = << >> THEN 0
    ELSE 10 * ParseDecimal(SubSeq(chars, 1, Len(chars) - 1))
         + DigitValue(chars[Len(chars)])

\* chars is the base-10 string of an integer v with lo <= v < hi.
IsDecimalIn(chars, lo, hi) ==
    /\ chars # << >>
    /\ \A i \in DOMAIN chars : IsDigit(chars[i])
    /\ (Len(chars) > 1 => chars[1] # "0")
    /\ lo <= ParseDecimal(chars) /\ ParseDecimal(chars) < hi

RequestedNames == {requestedMetrics.a[i].s : i \in DOMAIN requestedMetrics.a}

\* C2: the keys of the mapping generateMetrics returns are exactly the
\* distinct requested names; a known name has the decimal string of an integer
\* in [min, max), every other name has "0".
C2_MetricsKeysAndValues ==
    (metricsOut # NotCalled) =>
        /\ ~metricsOut.threw
        /\ DOMAIN metricsOut.value = RequestedNames
        /\ \A name \in DOMAIN metricsOut.value :
               IF name \in DOMAIN baseValues
               THEN IsDecimalIn(metricsOut.value[name],
                                baseValues[name].min, baseValues[name].max)
               ELSE metricsOut.value[name] = <<"0">>

RequestedInfoNames ==
    {mockArgs.infoFields.a[i].s : i \in DOMAIN mockArgs.infoFields.a}

\* C3: the keys of every row's info are the four fixed names and the
\* requested names, and info.material_id is the input material id.
C3_InfoKeysAndMaterialId ==
    (mockOut # NotCalled) =>
        /\ ~mockOut.threw
        /\ \A k \in DOMAIN mockOut.value :
               /\ DOMAIN mockOut.value[k].info
                      = FixedInfoFields \cup RequestedInfoNames
               /\ mockOut.value[k].info["material_id"] = mockArgs.materialIds[k]

\* C4: both entry points answer a GET request with valid field lists and no
\* filtering parameter with code 40001 and the "filtering ... is required"
\* message.
C4_MissingFilteringMessage ==
    \A res \in Responses :
        (IsGet /\ ValidFields /\ req.query.filtering = QAbsent
               /\ res # NoResponse) =>
            /\ res.body.kind = "json"
            /\ res.body.code = 40001
            /\ res.body.message = MsgFilteringRequired

\* C5: a GET request with valid field lists whose filtering parses as JSON
\* to a value without a material_id array is answered with code 40001 and
\* the "material_id must be provided as an array" message.
C5_InvalidFilteringMessage ==
    \A res \in Responses :
        (IsGet /\ ValidFields /\ req.query.filtering.q = "json"
               /\ ~HasMaterialIdArray(req.query.filtering.v)
               /\ res # NoResponse) =>
            /\ res.body.kind = "json"
            /\ res.body.code = 40001
            /\ res.body.message = MsgMaterialIdArray

\* C6: a GET request whose info_fields or metrics_fields is missing, not
\* JSON or not an array of strings is answered with HTTP 400 and code 40001,
\* never with code 0.
C6_MalformedFieldsRejected ==
    \A res \in Responses :
        (IsGet /\ ~ValidFields /\ res # NoResponse) => IsInputError(res)

\* The two shapes a response to GET may have.
AllOrNothing(res) ==
    \/ /\ res.status = 200
       /\ res.body.kind = "json"
       /\ res.body.code = 0
       /\ res.body.message = "OK"
       /\ DOMAIN res.body.data = {"list", "page_info"}
    \/ /\ res.status = 400
       /\ res.body.kind = "json"
       /\ res.body.code = 40001
       /\ res.body.message # ""
       /\ res.body.data = EmptyObject

\* C7: every response to a GET request is either 200 / code 0 / "OK" with
\* list and page_info, or 400 / code 40001 / a non-empty message / data {};
\* an error raised while parsing or generating always ends in the second.
C7_AllOrNothing ==
    \A res \in Responses : (IsGet /\ res # NoResponse) => AllOrNothing(res)

\* A TypeError raised while generating rows was answered as an input error.
C7_Witness ==
    /\ IsGet
    /\ req.query.filtering.q = "json"
    /\ HasMaterialIdArray(req.query.filtering.v)
    /\ RequestedMaterialIds # << >>
    /\ vercelRes # NoResponse
    /\ vercelRes.body.message = "infoFields.reduce is not a function"
    /\ vercelRes.body.data = EmptyObject
    /\ expressRes # NoResponse
    /\ expressRes.status = 400

\* C8: every entry point answers a request that is neither GET nor OPTIONS
\* with HTTP 405, code 40500, "Method not allowed" and empty data.
C8_MethodNotAllowed ==
    \A res \in Responses :
        (req.method \notin {"none", "GET", "OPTIONS"} /\ res # NoResponse) =>
            /\ res.status = 405
            /\ res.body.kind = "json"
            /\ res.body.code = 40500
            /\ res.body.message = "Method not allowed"
            /\ res.body.data = EmptyObject

\* C9: in every success response page_info is total_number = page_size =
\* the number of rows, total_page = 1, page = 1, whatever page and page_size
\* the request gave.
C9_PageInfo ==
    \A res \in Responses :
        (IsGet /\ IsSuccess(res)) =>
            res.body.data.page_info =
                [total_number |-> Len(res.body.data.list),
                 total_page   |-> 1,
                 page_size    |-> Len(res.body.data.list),
                 page         |-> 1]

\* A success with two rows to a request that asked for page 2 of size 5.
C9_Witness ==
    /\ IsGet
    /\ req.query.page = QRaw("2")
    /\ req.query.page_size = QRaw("5")
    /\ IsSuccess(vercelRes)
    /\ Len(vercelRes.body.data.list) = 2
    /\ IsSuccess(expressRes)
    /\ Len(expressRes.body.data.list) = 2

\* What C10 compares: status, code, message, and the key sets of the rows.
ResponseShape(res) ==
    [status  |-> res.status,
     code    |-> res.body.code,
     message |-> res.body.message,
     rows    |-> IF res.body.data = EmptyObject THEN << >>
                 ELSE [k \in DOMAIN res.body.data.list |->
                         [metrics |-> DOMAIN res.body.data.list[k].metrics,
                          info    |-> DOMAIN res.body.data.list[k].info]],
     keys    |-> DOMAIN res.body.data]

\* C10: the two entry points answer the same GET request with the same
\* status, code, message and data shape.
C10_EntryPointsAgree ==
    (IsGet /\ vercelRes # NoResponse /\ expressRes # NoResponse) =>
        ResponseShape(vercelRes) = ResponseShape(expressRes)

====
